---- MODULE Spec2Model ----
(***************************************************************************)
(* Model of attacut's packaging manifest, setup.py.                        *)
(*                                                                         *)
(* The script runs top to bottom once:                                     *)
(*   line 3-4   with open("README.md", "r") as fh:                         *)
(*                  long_description = fh.read()                           *)
(*   line 6-7   with open("./requirements.txt", "r") as f:                 *)
(*                  requirements = list(map(lambda x: x.strip(),           *)
(*                                          f.readlines()))                *)
(*   line 9-26  setup(name=..., install_requires=requirements,             *)
(*                    long_description=long_description, ...)              *)
(*                                                                         *)
(* A text is a sequence of characters.  The characters are tokens: "a" is  *)
(* an ordinary character, SP a space, LF a line feed, CR a carriage        *)
(* return.  The file system is fixed during the run.                       *)
(***************************************************************************)
EXTENDS Naturals, Sequences, FiniteSets

VARIABLES
    fs,               \* the two files on disk: name -> [status, content]
    pc,               \* position of the script
    handles,          \* names of the files whose handle is open
    long_description, \* the variable of line 4
    requirements,     \* the variable of line 7
    exc,              \* the exception in flight, or "none"
    calls,            \* keyword arguments of the setup() calls made so far
    log               \* history of the I/O operations and setup() calls

vars == <<fs, pc, handles, long_description, requirements, exc, calls, log>>

\* ---------------------------------------------------------------- bounds
MaxReadmeLen == 2
MaxReqLen == 3
\* Longest text of either file in the runs checked for termination, which
\* depends on the files' statuses and not on their texts.
MaxFairLen == 1

\* ------------------------------------------------------------ characters
SP == "SP"
LF == "LF"
CR == "CR"
Chars == {"a", SP, LF, CR}

\* The characters str.strip() removes, among Chars.
Whitespace == {SP, LF, CR}

README == "README.md"
REQS == "./requirements.txt"
Files == {README, REQS}

\* A file is absent, present but not openable, present and openable but not
\* decodable as text, or a readable text.
Statuses == {"absent", "denied", "corrupt", "ok"}

Texts(n) == UNION {[1..k -> Chars] : k \in 0..n}

\* ------------------------------------------------------- pure functions

\* Text mode "r" (newline=None): on input the line endings CR LF and CR are
\* translated to LF before the text reaches the caller.
RECURSIVE TextRead(_)
TextRead(raw) ==
    IF raw = <<>> THEN <<>>
    ELSE IF Head(raw) = CR
         THEN <<LF>> \o TextRead(IF Len(raw) > 1 /\ raw[2] = LF
                                 THEN Tail(Tail(raw))
                                 ELSE Tail(raw))
         ELSE <<Head(raw)>> \o TextRead(Tail(raw))

\* f.readlines(): the text cut after every LF, every line keeping its LF; a
\* last line without LF is a line too, an empty rest is not.
RECURSIVE SplitLines(_, _)
SplitLines(text, cur) ==
    IF text = <<>> THEN (IF cur = <<>> THEN <<>> ELSE <<cur>>)
    ELSE IF Head(text) = LF
         THEN <<Append(cur, LF)>> \o SplitLines(Tail(text), <<>>)
         ELSE SplitLines(Tail(text), Append(cur, Head(text)))

ReadLines(raw) == SplitLines(TextRead(raw), <<>>)

RECURSIVE LStrip(_)
LStrip(s) ==
    IF s = <<>> THEN s
    ELSE IF Head(s) \in Whitespace THEN LStrip(Tail(s)) ELSE s

RECURSIVE RStrip(_)
RStrip(s) ==
    IF s = <<>> THEN s
    ELSE IF s[Len(s)] \in Whitespace THEN RStrip(SubSeq(s, 1, Len(s) - 1)) ELSE s

\* lambda x: x.strip()
Strip(s) == RStrip(LStrip(s))

\* list(map(lambda x: x.strip(), lines))
MapStrip(lines) == [i \in 1..Len(lines) |-> Strip(lines[i])]

\* The keyword arguments of the setup() call that are literals.
StaticKwargs ==
    [name |-> "attacut",
     version |-> "0.0.3-dev",
     description |-> "Yet Another Tokenizer for Thai",
     author |-> "Man Foo",
     author_email |-> "foomail@foo.com",
     packages |-> <<"attacut", "attacut.models", "attacut.artifacts">>,
     scripts |-> <<"scripts/attacut-cli">>,
     package_data |-> [attacut |-> <<"artifacts/**/*">>],
     long_description_content_type |-> "text/markdown",
     classifiers |-> <<"Programming Language :: Python :: 3",
                       "License :: OSI Approved :: MIT License",
                       "Operating System :: OS Independent">>]

\* Faulty variant of SetupKwargs: the README text is passed as description too.
SetupKwargs_DescriptionFromReadme(ld, reqs) ==
    [k \in DOMAIN StaticKwargs \cup {"install_requires", "long_description"} |->
        CASE k = "install_requires" -> reqs
          [] k \in {"long_description", "description"} -> ld
          [] OTHER -> StaticKwargs[k]]

\* The keyword arguments of the setup() call.
SetupKwargs(ld, reqs) ==
    [k \in DOMAIN StaticKwargs \cup {"install_requires", "long_description"} |->
        CASE k = "install_requires" -> reqs
          [] k = "long_description" -> ld
          [] OTHER -> StaticKwargs[k]]

\* ---------------------------------------------------------------- state

Event(op, file, ok) == [op |-> op, file |-> file, ok |-> ok]

\* The state before line 3, with README.md of at most nReadme characters and
\* requirements.txt of at most nReq.  Only a readable text has a content.
InitWith(nReadme, nReq) ==
    /\ fs \in {f \in [Files -> [status : Statuses,
                                content : Texts(nReadme) \cup Texts(nReq)]] :
                 /\ f[README].content \in Texts(nReadme)
                 /\ f[REQS].content \in Texts(nReq)
                 /\ \A file \in Files :
                       f[file].status # "ok" => f[file].content = <<>>}
    /\ pc = "open_readme"
    /\ handles = {}
    /\ long_description = <<>>
    /\ requirements = <<>>
    /\ exc = "none"
    /\ calls = <<>>
    /\ log = <<>>

\* open(file, "r"): raises when the file is absent or may not be opened,
\* and the script ends there; otherwise the handle is open.
OpenFile(file, at, next) ==
    /\ pc = at
    /\ IF fs[file].status \in {"absent", "denied"}
       THEN /\ exc' = (IF fs[file].status = "absent"
                       THEN "FileNotFoundError" ELSE "PermissionError")
            /\ pc' = "failed"
            /\ handles' = handles
            /\ log' = Append(log, Event("open", file, FALSE))
       ELSE /\ exc' = exc
            /\ pc' = next
            /\ handles' = handles \cup {file}
            /\ log' = Append(log, Event("open", file, TRUE))
    /\ UNCHANGED <<fs, long_description, requirements, calls>>

\* __exit__ of the with block: the handle is closed, and an exception raised
\* in the block goes on to end the script.
ExitFile(file, at, next) ==
    /\ pc = at
    /\ handles' = handles \ {file}
    /\ log' = Append(log, Event("close", file, TRUE))
    /\ pc' = IF exc # "none" THEN "failed" ELSE next
    /\ UNCHANGED <<fs, long_description, requirements, exc, calls>>

\* Faulty variant of OpenReadme: a failed open is swallowed and the script
\* goes on to the next statement.
OpenReadme_Swallow ==
    /\ pc = "open_readme"
    /\ IF fs[README].status \in {"absent", "denied"}
       THEN /\ pc' = "open_requirements"
            /\ handles' = handles
            /\ log' = Append(log, Event("open", README, FALSE))
       ELSE /\ pc' = "read_readme"
            /\ handles' = handles \cup {README}
            /\ log' = Append(log, Event("open", README, TRUE))
    /\ UNCHANGED <<fs, long_description, requirements, exc, calls>>

OpenReadme == OpenFile(README, "open_readme", "read_readme")

\* Faulty variant of ReadReadme: the text is trimmed, fh.read().strip().
ReadReadme_Stripped ==
    /\ pc = "read_readme"
    /\ IF fs[README].status = "corrupt"
       THEN /\ exc' = "UnicodeDecodeError"
            /\ long_description' = long_description
            /\ log' = Append(log, Event("read", README, FALSE))
       ELSE /\ exc' = exc
            /\ long_description' = Strip(TextRead(fs[README].content))
            /\ log' = Append(log, Event("read", README, TRUE))
    /\ pc' = "exit_readme"
    /\ UNCHANGED <<fs, handles, requirements, calls>>

\* long_description = fh.read()
ReadReadme ==
    /\ pc = "read_readme"
    /\ IF fs[README].status = "corrupt"
       THEN /\ exc' = "UnicodeDecodeError"
            /\ long_description' = long_description
            /\ log' = Append(log, Event("read", README, FALSE))
       ELSE /\ exc' = exc
            /\ long_description' = TextRead(fs[README].content)
            /\ log' = Append(log, Event("read", README, TRUE))
    /\ pc' = "exit_readme"
    /\ UNCHANGED <<fs, handles, requirements, calls>>

\* Faulty variant of ExitReadme: the second with block is missing, the script
\* goes from the first block to the setup() call.
ExitReadme_SkipRequirements == ExitFile(README, "exit_readme", "setup")

ExitReadme == ExitFile(README, "exit_readme", "open_requirements")

\* Faulty variant of OpenRequirements: a missing file is taken for an empty one.
OpenRequirements_IgnoreMissing ==
    /\ pc = "open_requirements"
    /\ pc' = "read_requirements"
    /\ handles' = handles \cup {REQS}
    /\ log' = Append(log, Event("open", REQS, TRUE))
    /\ UNCHANGED <<fs, long_description, requirements, exc, calls>>

OpenRequirements == OpenFile(REQS, "open_requirements", "read_requirements")

\* Faulty variant of ReadRequirements: blank lines are dropped.
ReadRequirements_DropBlank ==
    /\ pc = "read_requirements"
    /\ IF fs[REQS].status = "corrupt"
       THEN /\ exc' = "UnicodeDecodeError"
            /\ requirements' = requirements
            /\ log' = Append(log, Event("read", REQS, FALSE))
       ELSE /\ exc' = exc
            /\ requirements' = SelectSeq(MapStrip(ReadLines(fs[REQS].content)),
                                         LAMBDA x : x # <<>>)
            /\ log' = Append(log, Event("read", REQS, TRUE))
    /\ pc' = "exit_requirements"
    /\ UNCHANGED <<fs, handles, long_description, calls>>

\* requirements = list(map(lambda x: x.strip(), f.readlines()))
ReadRequirements ==
    /\ pc = "read_requirements"
    /\ IF fs[REQS].status = "corrupt"
       THEN /\ exc' = "UnicodeDecodeError"
            /\ requirements' = requirements
            /\ log' = Append(log, Event("read", REQS, FALSE))
       ELSE /\ exc' = exc
            /\ requirements' = MapStrip(ReadLines(fs[REQS].content))
            /\ log' = Append(log, Event("read", REQS, TRUE))
    /\ pc' = "exit_requirements"
    /\ UNCHANGED <<fs, handles, long_description, calls>>

\* Faulty variant of ExitRequirements: no with block, the handle is closed
\* only when the read did not raise.
ExitRequirements_LeakOnError ==
    /\ pc = "exit_requirements"
    /\ handles' = IF exc # "none" THEN handles ELSE handles \ {REQS}
    /\ log' = IF exc # "none" THEN log ELSE Append(log, Event("close", REQS, TRUE))
    /\ pc' = IF exc # "none" THEN "failed" ELSE "setup"
    /\ UNCHANGED <<fs, long_description, requirements, exc, calls>>

ExitRequirements == ExitFile(REQS, "exit_requirements", "setup")

\* Faulty variant of CallSetup: the script ends without calling setup().
CallSetup_NoCall ==
    /\ pc = "setup"
    /\ pc' = "success"
    /\ UNCHANGED <<fs, handles, long_description, requirements, exc, calls, log>>

\* setup(...): the metadata-registration call; the script ends after it.
CallSetup ==
    /\ pc = "setup"
    /\ calls' = Append(calls, SetupKwargs(long_description, requirements))
    /\ log' = Append(log, Event("setup", "", TRUE))
    /\ pc' = "success"
    /\ UNCHANGED <<fs, handles, long_description, requirements, exc>>

Next ==
    \/ OpenReadme
    \/ ReadReadme
    \/ ExitReadme
    \/ OpenRequirements
    \/ ReadRequirements
    \/ ExitRequirements
    \/ CallSetup

Init == InitWith(MaxReadmeLen, MaxReqLen)

Spec == Init /\ [][Next]_vars

FairInit == InitWith(MaxFairLen, MaxFairLen)

\* The interpreter runs the script without pause: a step that can be taken is
\* taken.
FairSpec == FairInit /\ [][Next]_vars /\ WF_vars(Next)

\* ------------------------------------------------ what the claims speak of

Range(s) == {s[i] : i \in 1..Len(s)}

Min(S) == CHOOSE x \in S : \A y \in S : x <= y
Max(S) == CHOOSE x \in S : \A y \in S : x >= y

Terminal == {"success", "failed"}

\* The positions of raw that end a line: an LF, or a CR no LF follows.
LineEnds(raw) ==
    {i \in 1..Len(raw) :
        \/ raw[i] = LF
        \/ raw[i] = CR /\ ~(i < Len(raw) /\ raw[i + 1] = LF)}

\* The positions of raw where a line starts.
LineStarts(raw) == {i \in 1..Len(raw) : i = 1 \/ (i - 1) \in LineEnds(raw)}

NumLines(raw) == Cardinality(LineStarts(raw))

NthLineStart(raw, n) ==
    CHOOSE i \in LineStarts(raw) :
        Cardinality({j \in LineStarts(raw) : j <= i}) = n

LineLast(raw, start) ==
    Min({e \in LineEnds(raw) : e >= start} \cup {Len(raw)})

\* raw[from..to] without its leading and trailing whitespace.
Trimmed(raw, from, to) ==
    LET solid == {k \in from..to : raw[k] \notin Whitespace}
    IN  IF solid = {} THEN <<>> ELSE SubSeq(raw, Min(solid), Max(solid))

\* The lines of raw, each trimmed, in file order.
TrimmedLines(raw) ==
    [n \in 1..NumLines(raw) |->
        Trimmed(raw, NthLineStart(raw, n), LineLast(raw, NthLineStart(raw, n)))]

NonEmpty(s) == s # <<>>

\* raw with every line ending written as one LF, nothing else changed.
NewlineNormalised(raw) ==
    LET kept == {i \in 1..Len(raw) : ~(raw[i] = LF /\ i > 1 /\ raw[i - 1] = CR)}
        nth(n) == CHOOSE i \in kept : Cardinality({j \in kept : j <= i}) = n
    IN  [n \in 1..Cardinality(kept) |->
            IF raw[nth(n)] = CR THEN LF ELSE raw[nth(n)]]

IsRead(e) == e.op = "read"
IsSetup(e) == e.op = "setup"
IsStatement(e) == e.op \in {"open", "read", "setup"}

HasFailed(l) == \E i \in 1..Len(l) : ~l[i].ok

Opens(l, file) == {i \in 1..Len(l) : l[i].op = "open" /\ l[i].file = file}

PcRank(p) ==
    CASE p = "open_readme" -> 1
      [] p = "read_readme" -> 2
      [] p = "exit_readme" -> 3
      [] p = "open_requirements" -> 4
      [] p = "read_requirements" -> 5
      [] p = "exit_requirements" -> 6
      [] p = "setup" -> 7
      [] p \in Terminal -> 8

BothReadable == fs[README].status = "ok" /\ fs[REQS].status = "ok"
EitherAbsent == fs[README].status = "absent" \/ fs[REQS].status = "absent"

\* ----------------------------------------------------------------- claims

\* C1: for every content of the requirements file, install_requires of the
\* setup() call is the sequence of the non-empty, whitespace-trimmed lines of
\* the file, in file order.  (Refuted: blank lines stay, as empty strings.)
C1_NonEmptyTrimmedLines ==
    pc = "success" =>
        calls[1].install_requires
            = SelectSeq(TrimmedLines(fs[REQS].content), NonEmpty)

\* C2, as stated: if README.md or requirements.txt is absent (either or both),
\* the run ends failed with a file-not-found condition and never in success.
\* (Refuted: README.md present but unreadable, requirements.txt absent.)
C2_AbsentMeansFileNotFound ==
    EitherAbsent =>
        /\ pc # "success"
        /\ pc \in Terminal => (pc = "failed" /\ exc = "FileNotFoundError")

\* The absent file is the one the run gets to: README.md, or requirements.txt
\* after README.md was read.
ReachesAbsentFile ==
    \/ fs[README].status = "absent"
    \/ fs[README].status = "ok" /\ fs[REQS].status = "absent"

\* C2, amended: if either file is absent the run never ends in success; and if
\* README.md is absent, or README.md is readable and requirements.txt is
\* absent, the run ends failed with a file-not-found condition.
C2_AbsentFails ==
    /\ [](EitherAbsent => pc # "success")
    /\ [](ReachesAbsentFile /\ pc \in Terminal
            => pc = "failed" /\ exc = "FileNotFoundError")
    /\ (ReachesAbsentFile ~> (pc = "failed" /\ exc = "FileNotFoundError"))

C2_Witness ==
    /\ fs[README].status = "ok"
    /\ fs[REQS].status = "absent"
    /\ pc = "failed"
    /\ exc = "FileNotFoundError"

\* C3: when both files exist and are readable, every run eventually makes the
\* setup() call and stays in the success state with one descriptor produced;
\* and no step of any run goes back to an earlier position.
C3_SucceedsOnce ==
    /\ (BothReadable => <>[](pc = "success" /\ Len(calls) = 1))
    /\ [][PcRank(pc') > PcRank(pc)]_vars

C3_Witness ==
    BothReadable /\ pc = "success" /\ Len(calls) = 1 /\ Len(log) = 7

\* C4, as stated: long_description of the setup() call is the whole content
\* of README.md unchanged.  (Refuted: a CR in README.md is read as LF.)
C4_Verbatim ==
    pc = "success" => calls[1].long_description = fs[README].content

\* C4, amended: long_description of the setup() call is the content of
\* README.md with every line ending (CR LF, CR) read as LF and nothing else
\* changed: no trimming, splitting or truncation; a content without CR is
\* passed unchanged.
C4_VerbatimUpToNewlines ==
    pc = "success" =>
        /\ calls[1].long_description = NewlineNormalised(fs[README].content)
        /\ CR \notin Range(fs[README].content)
              => calls[1].long_description = fs[README].content

C4_Witness ==
    /\ pc = "success"
    /\ Len(fs[README].content) = 2
    /\ fs[README].content[1] = SP
    /\ fs[README].content[2] = LF
    /\ calls[1].long_description = <<SP, LF>>

\* C5: in every successful run there are exactly two file reads, README.md
\* then requirements.txt, and exactly one setup() call; and a setup() call is
\* made only after both reads have completed.
C5_TwoReadsThenOneCall ==
    /\ pc = "success" =>
          /\ SelectSeq(log, IsRead)
                = <<Event("read", README, TRUE), Event("read", REQS, TRUE)>>
          /\ Len(SelectSeq(log, IsSetup)) = 1
          /\ Len(calls) = 1
    /\ \A i \in 1..Len(log) :
          IsSetup(log[i]) =>
             \E j, k \in 1..(i - 1) :
                /\ j < k
                /\ log[j] = Event("read", README, TRUE)
                /\ log[k] = Event("read", REQS, TRUE)

C5_Witness ==
    /\ pc = "success"
    /\ IsSetup(log[Len(log)])
    /\ long_description # <<>>
    /\ Len(requirements) = 2

\* C6: the static fields of the setup() call have the same values whatever
\* README.md and requirements.txt hold.
C6_StaticFields ==
    \A i \in 1..Len(calls) :
        /\ DOMAIN calls[i]
              = {"name", "version", "description", "author", "author_email",
                 "packages", "install_requires", "scripts", "package_data",
                 "long_description", "long_description_content_type",
                 "classifiers"}
        /\ calls[i].name = "attacut"
        /\ calls[i].version = "0.0.3-dev"
        /\ calls[i].description = "Yet Another Tokenizer for Thai"
        /\ calls[i].author = "Man Foo"
        /\ calls[i].author_email = "foomail@foo.com"
        /\ calls[i].packages
              = <<"attacut", "attacut.models", "attacut.artifacts">>
        /\ calls[i].scripts = <<"scripts/attacut-cli">>
        /\ calls[i].package_data = [attacut |-> <<"artifacts/**/*">>]
        /\ calls[i].long_description_content_type = "text/markdown"
        /\ calls[i].classifiers
              = <<"Programming Language :: Python :: 3",
                  "License :: OSI Approved :: MIT License",
                  "Operating System :: OS Independent">>

C6_Witness ==
    /\ Len(calls) = 1
    /\ calls[1].long_description = <<"a", "a">>
    /\ calls[1].install_requires = <<<<"a">>, <<"a">>>>

\* C7: no recovery or retry: once an open or a read has failed, no further
\* open, read or setup() call is made, so setup() is never called; each file
\* is opened at most once; and when README.md is absent, requirements.txt is
\* never opened.
C7_NoRecovery ==
    /\ [](HasFailed(log) => calls = <<>>)
    /\ [](\A file \in Files : Cardinality(Opens(log, file)) <= 1)
    /\ [](fs[README].status = "absent" => Opens(log, REQS) = {})
    /\ [][HasFailed(log)
            => SelectSeq(log', IsStatement) = SelectSeq(log, IsStatement)]_vars

C7_Witness ==
    /\ fs[README].status = "absent"
    /\ fs[REQS].status = "ok"
    /\ pc = "failed"
    /\ log = <<Event("open", README, FALSE)>>

\* C8: the dependency list has one entry per line of requirements.txt, the
\* i-th entry being the i-th line without its leading and trailing whitespace
\* (line terminator included); a blank line gives an empty entry, an empty
\* file an empty list.
C8_OneEntryPerLine ==
    pc = "success" =>
        LET raw == fs[REQS].content
            deps == calls[1].install_requires
        IN  /\ Len(deps) = NumLines(raw)
            /\ deps = TrimmedLines(raw)
            /\ \A i \in 1..Len(deps) :
                  \/ deps[i] = <<>>
                  \/ /\ Head(deps[i]) \notin Whitespace
                     /\ deps[i][Len(deps[i])] \notin Whitespace
            /\ raw = <<>> => deps = <<>>

C8_Witness ==
    /\ pc = "success"
    /\ fs[REQS].content = <<"a", LF, LF>>
    /\ calls[1].install_requires = <<<<"a">>, <<>>>>

\* C9: at most one file handle is open at any time; none is open when
\* requirements.txt is about to be opened, when setup() is called, or when
\* the run has ended, in success or in failure.
C9_HandlesClosed ==
    /\ Cardinality(handles) <= 1
    /\ pc \in {"open_requirements", "setup"} \cup Terminal => handles = {}

C9_Witness ==
    /\ pc = "failed"
    /\ exc = "UnicodeDecodeError"
    /\ fs[REQS].status = "corrupt"
    /\ log[Len(log)] = Event("close", REQS, TRUE)
    /\ handles = {}

====
